---- MODULE Spec2Model ----
(***************************************************************************)
(* The file lock of the shopping-list server (class FileLock of index.js)  *)
(* and the load / mutate / save cycle its withLock callbacks run against   *)
(* the shopping-list document.  Time is in milliseconds.  Every file       *)
(* system call of the code is one step; the synchronous code that follows  *)
(* an await belongs to the step of that await.                             *)
(***************************************************************************)
EXTENDS Integers, Sequences, FiniteSets, TLC

\* ------------------------------------------------------------------ bounds
NProcs == 2
MaxTime == 3
OptMaxRetries == 2
OptRetryDelay == 1
OptLockTimeout == 1
HeldMaxRetries == 3
TickMs == 25
DefaultsHorizon == 7600
MaxForwards == 2

Procs == 1..NProcs

\* ------------------------------------------------- program constants
DefaultMaxRetries == 50
DefaultRetryDelay == 50
DefaultLockTimeout == 5000

VARIABLES
  now,        \* Date.now()
  lock,       \* the FileLock object: maxRetries, retryDelay, lockTimeout
  marker,     \* LOCK_FILE: existence, content, mtime
  dataFile,   \* DATA_FILE: absent, truncated (mid-write) or a document
  pc,         \* position of request p
  req,        \* the request p serves
  tok,        \* acquire's lockId of p
  lockId,     \* withLock's lockId of p (NoToken while undefined)
  startTime,  \* acquire's startTime of p
  attempt,    \* acquire's loop counter of p
  wakeAt,     \* the instant p's setTimeout fires
  list,       \* the document p's callback holds in memory
  outcome,    \* what p's withLock returned or threw
  hist,       \* per request: counts of the calls it made, what it observed
  lastReleased, \* file content left by the last mutation that released
  initialFile, \* DATA_FILE as the server found it
  emitted     \* the 'list-updated' events io.emit has sent, in order

vars == <<now, lock, marker, dataFile, pc, req, tok, lockId, startTime,
          attempt, wakeAt, list, outcome, hist, lastReleased, initialFile,
          emitted>>

\* ------------------------------------------------------------ values
NoToken == <<>>
NoMarker == [exists |-> FALSE, content |-> NoToken, mtime |-> 0]
AbsentFile == [state |-> "absent", items |-> <<>>, lastModified |-> 0]
TruncatedFile == [state |-> "partial", items |-> <<>>, lastModified |-> 0]
\* DATA_FILE exists and its content is not JSON
MalformedFile == [state |-> "malformed", items |-> <<>>, lastModified |-> 0]
NoList == [items |-> <<>>, lastModified |-> 0]
\* process.env.API_KEY
API_KEY == "key"
\* the body of a PATCH: the fields it has, and their values
NoUpdates == [has |-> {}, name |-> 0, checked |-> FALSE, details |-> <<>>]
\* a request: its route (kind), the x-api-key header, the :id parameter and
\* the fields of its body; 0, "" and <<>> stand for a field left out, hasItems
\* says whether the body has an items array (its elements are item names)
NoReq ==
  [kind |-> "none", apiKey |-> "", id |-> <<0, 0>>, name |-> 0, categoryId |-> 0,
   checked |-> FALSE, details |-> <<>>, hasItems |-> FALSE, items |-> <<>>,
   updates |-> NoUpdates]
NoOutcome == [kind |-> "none", value |-> <<>>]
\* the lock file a holder that died without releasing has left on disk
LeftoverMarker == [exists |-> TRUE, content |-> <<0, 0>>, mtime |-> 0]
\* the item already in the list was created before the server started
InitialId == <<-1, 0>>
\* checkedAt: undefined
NoTime == -1
InitialItem ==
  [id |-> InitialId, name |-> 0, checked |-> FALSE, checkedAt |-> NoTime,
   details |-> <<>>]
\* a second item of that age, with details, checked at some earlier time
CheckedId == <<-1, 1>>
CheckedItem ==
  [id |-> CheckedId, name |-> 0, checked |-> TRUE, checkedAt |-> 0,
   details |-> <<"x">>]
OneItemFile == [state |-> "ok", items |-> <<InitialItem>>, lastModified |-> 0]
RoutesFile ==
  [state |-> "ok", items |-> <<InitialItem, CheckedItem>>, lastModified |-> 0]

\* new FileLock(lockFile, options): an option left out (or 0) is falsy
FileLock(options) ==
  [maxRetries  |-> IF options.maxRetries = 0 THEN DefaultMaxRetries ELSE options.maxRetries,
   retryDelay  |-> IF options.retryDelay = 0 THEN DefaultRetryDelay ELSE options.retryDelay,
   lockTimeout |-> IF options.lockTimeout = 0 THEN DefaultLockTimeout ELSE options.lockTimeout]

NoOptions == [maxRetries |-> 0, retryDelay |-> 0, lockTimeout |-> 0]
\* a lock whose marker cannot get stale within the time the model covers
HeldOptions ==
  [maxRetries |-> HeldMaxRetries, retryDelay |-> OptRetryDelay, lockTimeout |-> MaxTime + 1]
SmallOptions ==
  [maxRetries |-> OptMaxRetries, retryDelay |-> OptRetryDelay, lockTimeout |-> OptLockTimeout]

\* the requests a client can send to the mutating routes
Requests(p) ==
  { [NoReq EXCEPT !.kind = "add", !.name = p, !.categoryId = 1],
    [NoReq EXCEPT !.kind = "ext", !.apiKey = API_KEY, !.name = p],
    [NoReq EXCEPT !.kind = "del", !.id = InitialId] }

\* an id no item has
MissingId == <<-2, 0>>

\* requests whose callback throws before it saves (an update and a delete of
\* an id that is not in the list, an external batch without a named item),
\* and an add
FailingRequests(p) ==
  { [NoReq EXCEPT !.kind = "patch", !.id = MissingId,
                  !.updates = [NoUpdates EXCEPT !.has = {"checked"},
                                                !.checked = TRUE]],
    [NoReq EXCEPT !.kind = "del", !.id = MissingId],
    [NoReq EXCEPT !.kind = "ext", !.apiKey = API_KEY, !.hasItems = TRUE,
                  !.items = <<0>>],
    [NoReq EXCEPT !.kind = "add", !.name = p, !.categoryId = 1] }

\* bodies of PATCH /api/shopping/items/:id: checked and details for the
\* first item, checked alone and name alone for the second, which has details
PatchRequests(p) ==
  { [NoReq EXCEPT !.kind = "patch", !.id = InitialId,
                  !.updates = [NoUpdates EXCEPT !.has = {"checked", "details"},
                                                !.checked = TRUE,
                                                !.details = <<" ", "y", " ">>]],
    [NoReq EXCEPT !.kind = "patch", !.id = CheckedId,
                  !.updates = [NoUpdates EXCEPT !.has = {"checked"}]],
    [NoReq EXCEPT !.kind = "patch", !.id = CheckedId,
                  !.updates = [NoUpdates EXCEPT !.has = {"name"}, !.name = p]] }

\* POST /api/external/add-items with a list of one named item, and the same
\* body sent to POST /api/external/add-item
AliasRequests(p) ==
  { [NoReq EXCEPT !.kind = "alias", !.apiKey = API_KEY, !.hasItems = TRUE,
                  !.items = <<p>>],
    [NoReq EXCEPT !.kind = "ext", !.apiKey = API_KEY, !.hasItems = TRUE,
                  !.items = <<p>>] }

\* the same requests and the two pure reads
ReadRequests(p) ==
  Requests(p) \cup
  { [NoReq EXCEPT !.kind = "get"], [NoReq EXCEPT !.kind = "sync"] }

\* the requests of every mutating route, with and without what the route
\* requires: POST /api/shopping/items, POST /api/external/add-item (one item,
\* a batch with an item that has no name), PATCH and DELETE
\* /api/shopping/items/:id, DELETE /api/shopping/items
RouteRequests(p) ==
  Requests(p) \cup
  { [NoReq EXCEPT !.kind = "add", !.name = p],
    [NoReq EXCEPT !.kind = "ext", !.apiKey = "wrong", !.name = p],
    [NoReq EXCEPT !.kind = "ext", !.name = p],
    [NoReq EXCEPT !.kind = "ext", !.apiKey = API_KEY],
    [NoReq EXCEPT !.kind = "ext", !.apiKey = API_KEY, !.hasItems = TRUE,
                  !.items = <<p, 0, p>>],
    [NoReq EXCEPT !.kind = "patch", !.id = InitialId,
                  !.updates = [NoUpdates EXCEPT !.has = {"checked", "details"},
                                                !.checked = TRUE,
                                                !.details = <<" ", "y", " ">>]],
    [NoReq EXCEPT !.kind = "clear"] }

NoHist ==
  [creates |-> 0, sleeps |-> 0, breaks |-> 0, cbRuns |-> 0, releases |-> 0,
   wrote |-> FALSE, acquiredAt |-> 0, releasedAt |-> 0, brokenAge |-> NoTime,
   basis |-> AbsentFile,
   cbResult |-> NoOutcome, lost |-> FALSE, lateRelease |-> FALSE,
   deletedForeign |-> FALSE, saved |-> AbsentFile, forwards |-> 0,
   createError |-> "", statMissed |-> FALSE]

InitCommon ==
  /\ now = 0
  /\ marker \in {NoMarker, LeftoverMarker}
  /\ dataFile \in {AbsentFile, MalformedFile, OneItemFile, RoutesFile}
  /\ pc = [p \in Procs |-> "idle"]
  /\ req = [p \in Procs |-> NoReq]
  /\ tok = [p \in Procs |-> NoToken]
  /\ lockId = [p \in Procs |-> NoToken]
  /\ startTime = [p \in Procs |-> 0]
  /\ attempt = [p \in Procs |-> 0]
  /\ wakeAt = [p \in Procs |-> 0]
  /\ list = [p \in Procs |-> NoList]
  /\ outcome = [p \in Procs |-> NoOutcome]
  /\ hist = [p \in Procs |-> NoHist]
  /\ lastReleased = dataFile
  /\ initialFile = dataFile
  /\ emitted = <<>>

Init ==
  /\ lock = FileLock(SmallOptions)
  /\ InitCommon
  /\ dataFile \in {AbsentFile, OneItemFile}

\* ------------------------------------------------------------ FileLock.acquire

\* a request handler calls fileLock.withLock, which calls acquire:
\* lockId and startTime are taken, the loop starts at attempt 0
\* (requests are numbered in the order they arrive)
\* a validation that forgets the required fields of the body
RejectionKeyOnly(r) ==
  IF r.kind = "ext" /\ r.apiKey # API_KEY THEN 401 ELSE 0

\* requireApiKey on the external routes (401) and the handlers' test of the
\* required body fields (400); 0 when the request gets through to withLock
Rejection(r) ==
  IF r.kind \in {"ext", "alias"} /\ r.apiKey # API_KEY THEN 401
  ELSE IF r.kind = "ext" /\ r.name = 0 /\ ~r.hasItems THEN 400
  ELSE IF r.kind = "add" /\ (r.name = 0 \/ r.categoryId = 0) THEN 400
  ELSE 0

\* read routes that go through withLock like the mutating ones
TakesLockAlways(r) == TRUE

\* GET /api/shopping/list and the request-sync event call loadShoppingList
\* directly, every mutating route calls fileLock.withLock
TakesLock(r) == r.kind \notin {"get", "sync"}

StartWith(p, r) ==
  /\ pc[p] = "idle"
  /\ \A q \in Procs : q < p => pc[q] # "idle"
  /\ req' = [req EXCEPT ![p] = r]
  /\ IF Rejection(r) # 0
     THEN /\ pc' = [pc EXCEPT ![p] = "done"]
          /\ outcome' = [outcome EXCEPT ![p] =
                [kind |-> "rejected", value |-> Rejection(r)]]
          /\ UNCHANGED <<tok, startTime, attempt>>
     ELSE IF ~TakesLock(r)
     THEN /\ pc' = [pc EXCEPT ![p] = "get_load"]
          /\ UNCHANGED <<tok, startTime, attempt, outcome>>
     ELSE IF r.kind = "alias"
     THEN /\ pc' = [pc EXCEPT ![p] = "alias_forward"]
          /\ UNCHANGED <<tok, startTime, attempt, outcome>>
     ELSE /\ tok' = [tok EXCEPT ![p] = <<p, now>>]
          /\ startTime' = [startTime EXCEPT ![p] = now]
          /\ attempt' = [attempt EXCEPT ![p] = 0]
          /\ pc' = [pc EXCEPT ![p] =
                IF 0 < lock.maxRetries THEN "acq_create" ELSE "done"]
          /\ outcome' = [outcome EXCEPT ![p] =
                IF 0 < lock.maxRetries THEN @ ELSE [kind |-> "timeout", value |-> 0]]
  /\ UNCHANGED <<now, lock, marker, dataFile, lockId, wakeAt, list, hist,
                 lastReleased, initialFile, emitted>>

Start(p) == \E r \in Requests(p) : StartWith(p, r)

StartRoutes(p) == \E r \in RouteRequests(p) : StartWith(p, r)

StartReads(p) == \E r \in ReadRequests(p) : StartWith(p, r)

StartFailing(p) == \E r \in FailingRequests(p) : StartWith(p, r)

StartPatch(p) == \E r \in PatchRequests(p) : StartWith(p, r)

StartAlias(p) == \E r \in AliasRequests(p) : StartWith(p, r)

\* the for loop's attempt++ and its test; leaving the loop throws
\* 'Failed to acquire lock after <waitTime>ms', which withLock lets through
\* (its finally finds lockId undefined and does not release)
LoopPcAlwaysRelease(p) ==
  IF attempt[p] + 1 < lock.maxRetries THEN "acq_create" ELSE "rel_read"

\* a loop that runs while attempt <= maxRetries
LoopPcOneMore(p) ==
  IF attempt[p] + 1 < lock.maxRetries + 1 THEN "acq_create" ELSE "done"

LoopPc(p) == IF attempt[p] + 1 < lock.maxRetries THEN "acq_create" ELSE "done"

LoopOutcome(p) ==
  IF attempt[p] + 1 < lock.maxRetries
  THEN outcome[p]
  ELSE [kind |-> "timeout", value |-> now - startTime[p]]

\* flag 'wx': the create fails with EEXIST when the file exists
CreateSucceeds == ~marker.exists

\* fs.writeFile(lockFile, lockId, {flag: 'wx'}) takes effect on disk
AcqCreate(p) ==
  /\ pc[p] = "acq_create"
  /\ IF CreateSucceeds
     THEN /\ marker' = [exists |-> TRUE, content |-> tok[p], mtime |-> now]
          /\ pc' = [pc EXCEPT ![p] = "acq_return"]
          /\ hist' = [hist EXCEPT ![p].creates = @ + 1, ![p].acquiredAt = now]
     ELSE /\ pc' = [pc EXCEPT ![p] = "acq_stat"]
          /\ hist' = [hist EXCEPT ![p].creates = @ + 1]
          /\ UNCHANGED marker
  /\ UNCHANGED <<now, lock, dataFile, req, tok, lockId, startTime, attempt, wakeAt,
                 list, outcome, lastReleased, initialFile, emitted>>

\* error codes of a writeFile that fails although no marker is in its way
CreateErrors == {"EACCES", "ENOSPC"}

\* an acquire that takes every create error for EEXIST
RethrownNever(code) == FALSE

\* if (error.code !== 'EEXIST') throw error
Rethrown(code) == code # "EEXIST"

\* the create fails with an error of the file system other than EEXIST:
\* acquire throws it and withLock, whose lockId is still undefined, lets it
\* through without a release
AcqCreateError(p) ==
  /\ pc[p] = "acq_create"
  /\ \E code \in CreateErrors :
        /\ hist' = [hist EXCEPT ![p].creates = @ + 1, ![p].createError = code]
        /\ IF Rethrown(code)
           THEN /\ pc' = [pc EXCEPT ![p] = "done"]
                /\ outcome' = [outcome EXCEPT ![p] =
                      [kind |-> "throw", value |-> <<code>>]]
           ELSE /\ pc' = [pc EXCEPT ![p] = "acq_stat"]
                /\ UNCHANGED outcome
  /\ UNCHANGED <<now, lock, marker, dataFile, req, tok, lockId, startTime,
                 attempt, wakeAt, list, lastReleased, initialFile, emitted>>

\* the await of the successful writeFile resumes: acquire returns lockId,
\* withLock keeps it and calls the callback
AcqReturn(p) ==
  /\ pc[p] = "acq_return"
  /\ lockId' = [lockId EXCEPT ![p] = tok[p]]
  /\ pc' = [pc EXCEPT ![p] = "cb_load"]
  /\ UNCHANGED <<now, lock, marker, dataFile, req, tok, startTime, attempt,
                 wakeAt, list, outcome, hist, lastReleased, initialFile, emitted>>

IsStaleInclusive == marker.exists /\ now - marker.mtime >= lock.lockTimeout

\* a staleness test that takes a marker that is gone for a stale one
IsStaleOrMissing == ~marker.exists \/ now - marker.mtime > lock.lockTimeout

\* fs.stat(lockFile) and the staleness test; a failing stat is swallowed
IsStale == marker.exists /\ now - marker.mtime > lock.lockTimeout

\* no backoff after the last attempt
ShouldSleepAlways(p) == attempt[p] < lock.maxRetries

ShouldSleep(p) == attempt[p] < lock.maxRetries - 1

AcqStat(p) ==
  /\ pc[p] = "acq_stat"
  /\ IF IsStale
     THEN /\ pc' = [pc EXCEPT ![p] = "acq_break"]
          /\ hist' = [hist EXCEPT ![p].statMissed = @ \/ ~marker.exists]
          /\ UNCHANGED <<attempt, wakeAt, outcome>>
     ELSE IF ShouldSleep(p)
          THEN /\ pc' = [pc EXCEPT ![p] = "acq_sleep"]
               /\ wakeAt' = [wakeAt EXCEPT ![p] = now + lock.retryDelay]
               /\ hist' = [hist EXCEPT ![p].sleeps = @ + 1,
                                       ![p].statMissed = @ \/ ~marker.exists]
               /\ UNCHANGED <<attempt, outcome>>
          ELSE /\ pc' = [pc EXCEPT ![p] = LoopPc(p)]
               /\ outcome' = [outcome EXCEPT ![p] = LoopOutcome(p)]
               /\ attempt' = [attempt EXCEPT ![p] = @ + 1]
               /\ hist' = [hist EXCEPT ![p].statMissed = @ \/ ~marker.exists]
               /\ UNCHANGED wakeAt
  /\ UNCHANGED <<now, lock, marker, dataFile, req, tok, lockId, startTime,
                 list, lastReleased, initialFile, emitted>>

\* fs.unlink(lockFile).catch(() => {}); continue
AcqBreak(p) ==
  /\ pc[p] = "acq_break"
  /\ marker' = NoMarker
  /\ hist' = [q \in Procs |->
        IF q = p
        THEN [hist[q] EXCEPT !.breaks = @ + 1,
                             !.brokenAge = IF marker.exists THEN now - marker.mtime ELSE @]
        ELSE IF marker.exists /\ marker.content = tok[q]
             THEN [hist[q] EXCEPT !.lost = TRUE]
             ELSE hist[q]]
  /\ pc' = [pc EXCEPT ![p] = LoopPc(p)]
  /\ outcome' = [outcome EXCEPT ![p] = LoopOutcome(p)]
  /\ attempt' = [attempt EXCEPT ![p] = @ + 1]
  /\ UNCHANGED <<now, lock, dataFile, req, tok, lockId, startTime, wakeAt,
                 list, lastReleased, initialFile, emitted>>

\* the setTimeout of the backoff fires
AcqWake(p) ==
  /\ pc[p] = "acq_sleep"
  /\ now >= wakeAt[p]
  /\ pc' = [pc EXCEPT ![p] = LoopPc(p)]
  /\ outcome' = [outcome EXCEPT ![p] = LoopOutcome(p)]
  /\ attempt' = [attempt EXCEPT ![p] = @ + 1]
  /\ UNCHANGED <<now, lock, marker, dataFile, req, tok, lockId, startTime,
                 wakeAt, list, hist, lastReleased, initialFile, emitted>>

\* ------------------------------------------------------------ the document

\* a load whose fallback document is not empty
LoadShoppingListSample(f, t) ==
  IF f.state = "ok"
  THEN [items |-> f.items, lastModified |-> f.lastModified]
  ELSE [items |-> <<InitialItem>>, lastModified |-> t]

\* loadShoppingList: readFile + JSON.parse; any failure gives the empty list
LoadShoppingList(f, t) ==
  IF f.state = "ok"
  THEN [items |-> f.items, lastModified |-> f.lastModified]
  ELSE [items |-> <<>>, lastModified |-> t]

\* saveShoppingList: the stamped copy that is serialised and returned
Stamped(l, t) == [items |-> l.items, lastModified |-> t]

\* what fs.writeFile(DATA_FILE, JSON.stringify(updatedList)) leaves on disk
Written(l) == [state |-> "ok", items |-> l.items, lastModified |-> l.lastModified]

\* items.findIndex(item => item.id === id), 0 for -1
RECURSIVE FindIndexFrom(_, _, _)
FindIndexFrom(items, id, i) ==
  IF i > Len(items) THEN 0
  ELSE IF items[i].id = id THEN i
  ELSE FindIndexFrom(items, id, i + 1)

FindIndex(items, id) == FindIndexFrom(items, id, 1)

\* items.splice(i, 1)
Splice(items, i) == SubSeq(items, 1, i - 1) \o SubSeq(items, i + 1, Len(items))

\* String.prototype.trim on a string given as the sequence of its characters
RECURSIVE TrimStart(_)
TrimStart(str) ==
  IF str # <<>> /\ Head(str) = " " THEN TrimStart(Tail(str)) ELSE str

RECURSIVE TrimEnd(_)
TrimEnd(str) ==
  IF str # <<>> /\ str[Len(str)] = " "
  THEN TrimEnd(SubSeq(str, 1, Len(str) - 1))
  ELSE str

Trim(str) == TrimEnd(TrimStart(str))

\* the item the add routes build: POST /api/shopping/items takes Date.now()
\* as id, the external route appends a random suffix (one per request here);
\* details that are empty once trimmed are left out, like every undefined field
NewItem(r, p, t) ==
  [id |-> IF r.kind = "ext" THEN <<t, p>> ELSE <<t, 0>>,
   name |-> r.name,
   checked |-> IF r.kind = "ext" THEN FALSE ELSE r.checked,
   checkedAt |-> NoTime,
   details |-> IF r.kind = "ext" THEN <<>> ELSE Trim(r.details)]

\* the item built for element k of the items array, with a suffix of its own
BatchItem(n, p, t, k) ==
  [id |-> <<t, p + NProcs * k>>, name |-> n, checked |-> FALSE,
   checkedAt |-> NoTime, details |-> <<>>]

\* for (const item of items): elements without a name are skipped
RECURSIVE BatchItems(_, _, _, _)
BatchItems(names, p, t, k) ==
  IF k > Len(names) THEN <<>>
  ELSE (IF names[k] = 0 THEN <<>> ELSE <<BatchItem(names[k], p, t, k)>>)
       \o BatchItems(names, p, t, k + 1)

\* addedItems of the external route: the single item, then the batch
AddedItems(r, p, t) ==
  (IF r.name # 0 THEN <<NewItem(r, p, t)>> ELSE <<>>)
  \o (IF r.hasItems THEN BatchItems(r.items, p, t, 1) ELSE <<>>)

\* PATCH: { ...item, ...sanitizedUpdates }, details trimmed, checkedAt set
\* when the body has checked, details removed when the sanitized body has none
Patched(item, u, t) ==
  [id |-> item.id,
   name |-> IF "name" \in u.has THEN u.name ELSE item.name,
   checked |-> IF "checked" \in u.has THEN u.checked ELSE item.checked,
   checkedAt |-> IF "checked" \in u.has
                 THEN (IF u.checked THEN t ELSE NoTime)
                 ELSE item.checkedAt,
   details |-> IF "details" \in u.has THEN Trim(u.details) ELSE <<>>]

\* a clear that keeps the checked items instead
ClearCheckedInverted(items) == SelectSeq(items, LAMBDA it : it.checked)

\* list.items.filter(item => !item.checked)
ClearChecked(items) == SelectSeq(items, LAMBDA it : ~it.checked)

NotFound(l) ==
  [ok |-> FALSE, list |-> l,
   result |-> [kind |-> "throw", value |-> <<"Item not found">>]]

\* the synchronous part of a withLock callback between load and save, and
\* what the callback returns once the save is over
Mutate(r, l, p, t) ==
  IF r.kind = "del"
  THEN IF FindIndex(l.items, r.id) = 0
       THEN NotFound(l)
       ELSE [ok |-> TRUE,
             list |-> [l EXCEPT !.items = Splice(l.items, FindIndex(l.items, r.id))],
             result |-> [kind |-> "return", value |-> <<>>]]
  ELSE IF r.kind = "patch"
  THEN IF FindIndex(l.items, r.id) = 0
       THEN NotFound(l)
       ELSE LET i == FindIndex(l.items, r.id)
                item == Patched(l.items[i], r.updates, t)
            IN [ok |-> TRUE,
                list |-> [l EXCEPT !.items[i] = item],
                result |-> [kind |-> "return", value |-> <<item>>]]
  ELSE IF r.kind = "clear"
  THEN [ok |-> TRUE,
        list |-> [l EXCEPT !.items = ClearChecked(l.items)],
        result |-> [kind |-> "return",
                    value |-> <<[items |-> ClearChecked(l.items),
                                 lastModified |-> t]>>]]
  ELSE IF r.kind = "ext"
  THEN IF AddedItems(r, p, t) = <<>>
       THEN [ok |-> FALSE, list |-> l,
             result |-> [kind |-> "throw", value |-> <<"No valid items to add">>]]
       ELSE [ok |-> TRUE,
             list |-> [l EXCEPT !.items = l.items \o AddedItems(r, p, t)],
             result |-> [kind |-> "return",
                         value |-> <<[addedItems |-> AddedItems(r, p, t),
                                      totalItems |-> Len(l.items)
                                                     + Len(AddedItems(r, p, t))]>>]]
  ELSE [ok |-> TRUE,
        list |-> [l EXCEPT !.items = Append(l.items, NewItem(r, p, t))],
        result |-> [kind |-> "return", value |-> <<NewItem(r, p, t)>>]]

\* the callback runs: loadShoppingList, the mutation, and the stamping of
\* saveShoppingList; a throwing callback goes straight to withLock's finally
CbLoad(p) ==
  /\ pc[p] = "cb_load"
  /\ LET m == Mutate(req[p], LoadShoppingList(dataFile, now), p, now)
     IN /\ list' = [list EXCEPT ![p] = Stamped(m.list, now)]
        /\ pc' = [pc EXCEPT ![p] = IF m.ok THEN "cb_write_open" ELSE "rel_read"]
        /\ hist' = [hist EXCEPT ![p].cbRuns = @ + 1, ![p].basis = dataFile,
                                ![p].cbResult = m.result]
  /\ UNCHANGED <<now, lock, marker, dataFile, req, tok, lockId, startTime,
                 attempt, wakeAt, outcome, lastReleased, initialFile, emitted>>

\* the add-items handler: req.body = { items: ... } and
\* app._router.handle(req, res).  req.url is still /api/external/add-items,
\* so the router, if there is one, dispatches to this handler again; it never
\* reaches the add-item handler.  What ends the recursion is up to the
\* framework (an error answered or thrown at some depth, or nothing: the
\* request is never answered); every outcome is taken here.
AliasForward(p) ==
  /\ pc[p] = "alias_forward"
  /\ \/ /\ hist[p].forwards < MaxForwards
        /\ hist' = [hist EXCEPT ![p].forwards = @ + 1]
        /\ UNCHANGED <<pc, outcome>>
     \/ /\ pc' = [pc EXCEPT ![p] = "done"]
        /\ outcome' = [outcome EXCEPT ![p] =
              [kind |-> "throw", value |-> <<"router">>]]
        /\ hist' = [hist EXCEPT ![p].forwards = @ + 1]
  /\ UNCHANGED <<now, lock, marker, dataFile, req, tok, lockId, startTime,
                 attempt, wakeAt, list, lastReleased, initialFile, emitted>>

\* a pure read: loadShoppingList, then res.json / socket.emit of what it gave
GetLoad(p) ==
  /\ pc[p] = "get_load"
  /\ list' = [list EXCEPT ![p] = LoadShoppingList(dataFile, now)]
  /\ hist' = [hist EXCEPT ![p].basis = dataFile]
  /\ outcome' = [outcome EXCEPT ![p] =
        [kind |-> "return", value |-> <<LoadShoppingList(dataFile, now)>>]]
  /\ pc' = [pc EXCEPT ![p] = "done"]
  /\ UNCHANGED <<now, lock, marker, dataFile, req, tok, lockId, startTime,
                 attempt, wakeAt, lastReleased, initialFile, emitted>>

\* fs.writeFile(DATA_FILE, ...) opens the file truncating it ...
CbWriteOpen(p) ==
  /\ pc[p] = "cb_write_open"
  /\ dataFile' = TruncatedFile
  /\ pc' = [pc EXCEPT ![p] = "cb_write"]
  /\ UNCHANGED <<now, lock, marker, req, tok, lockId, startTime, attempt,
                 wakeAt, list, outcome, hist, lastReleased, initialFile, emitted>>

\* an emit of the loaded list rather than of what saveShoppingList returned
EmitPayloadLoaded(p) ==
  [items |-> list[p].items,
   lastModified |-> LoadShoppingList(hist[p].basis, list[p].lastModified).lastModified]

\* io.emit('list-updated', updatedList)
EmitPayload(p) == list[p]

\* ... and writes the serialised document
CbWrite(p) ==
  /\ pc[p] = "cb_write"
  /\ dataFile' = Written(list[p])
  /\ hist' = [hist EXCEPT ![p].wrote = TRUE, ![p].saved = Written(list[p])]
  /\ pc' = [pc EXCEPT ![p] = "cb_emit"]
  /\ UNCHANGED <<now, lock, marker, req, tok, lockId, startTime, attempt,
                 wakeAt, list, outcome, lastReleased, initialFile, emitted>>

\* the await of the writeFile resumes: saveShoppingList returns updatedList,
\* the callback broadcasts it and returns
CbEmit(p) ==
  /\ pc[p] = "cb_emit"
  /\ emitted' = Append(emitted, [by |-> p, payload |-> EmitPayload(p)])
  /\ pc' = [pc EXCEPT ![p] = "rel_read"]
  /\ UNCHANGED <<now, lock, marker, dataFile, req, tok, lockId, startTime,
                 attempt, wakeAt, list, outcome, hist, lastReleased, initialFile>>

\* ------------------------------------------------------------ FileLock.release

\* withLock's finally is over: the callback's value or error reaches the caller
FinishPc(p) == "done"

FinishOutcomeMasked(p) ==
  IF marker.exists /\ marker.content = lockId[p]
  THEN hist[p].cbResult
  ELSE [kind |-> "throw", value |-> <<>>]

\* a release that lets the ENOENT of its readFile through
FinishOutcomeEnoent(p) ==
  IF marker.exists
  THEN hist[p].cbResult
  ELSE [kind |-> "throw", value |-> <<"ENOENT">>]

FinishOutcome(p) == hist[p].cbResult

FinishReleased(p) == IF hist[p].wrote THEN Written(list[p]) ELSE lastReleased

OwnsMarkerAny(p) == marker.exists

OwnsMarkerByRequest(p) == marker.exists /\ marker.content = <<p>>

\* currentLock === lockId
OwnsMarker(p) == marker.exists /\ marker.content = lockId[p]

\* fs.readFile(lockFile) and the comparison; ENOENT and a mismatch end release
RelRead(p) ==
  /\ pc[p] = "rel_read"
  /\ hist' = [hist EXCEPT ![p].releases = @ + 1, ![p].lateRelease = hist[p].lost,
                          ![p].releasedAt = IF OwnsMarker(p) THEN @ ELSE now]
  /\ IF OwnsMarker(p)
     THEN /\ pc' = [pc EXCEPT ![p] = "rel_unlink"]
          /\ UNCHANGED <<outcome, lastReleased>>
     ELSE /\ pc' = [pc EXCEPT ![p] = FinishPc(p)]
          /\ outcome' = [outcome EXCEPT ![p] = FinishOutcome(p)]
          /\ lastReleased' = FinishReleased(p)
  /\ UNCHANGED <<now, lock, marker, dataFile, req, tok, lockId, startTime,
                 attempt, wakeAt, list, initialFile, emitted>>

\* fs.unlink(lockFile); its ENOENT is swallowed by release's catch
RelUnlink(p) ==
  /\ pc[p] = "rel_unlink"
  /\ marker' = NoMarker
  /\ hist' = [q \in Procs |->
        IF q = p
        THEN [hist[q] EXCEPT !.releasedAt = now,
                             !.deletedForeign =
                                 marker.exists /\ marker.content # lockId[p]]
        ELSE IF marker.exists /\ marker.content = tok[q]
             THEN [hist[q] EXCEPT !.lost = TRUE]
             ELSE hist[q]]
  /\ pc' = [pc EXCEPT ![p] = FinishPc(p)]
  /\ outcome' = [outcome EXCEPT ![p] = FinishOutcome(p)]
  /\ lastReleased' = FinishReleased(p)
  /\ UNCHANGED <<now, lock, dataFile, req, tok, lockId, startTime, attempt,
                 wakeAt, list, initialFile, emitted>>

\* ------------------------------------------------------------ responses

\* a handler that answers every error with 500
StatusPlain(r, o) ==
  IF o.kind = "rejected" THEN o.value
  ELSE IF o.kind = "return" THEN 200
  ELSE 500

\* the status of the response: res.json on success, the catch of the
\* handler on an error (404 for 'Item not found' on PATCH and DELETE by id,
\* 400 for 'No valid items to add' on the external add, 500 otherwise)
Status(r, o) ==
  IF o.kind = "rejected" THEN o.value
  ELSE IF o.kind = "return" THEN 200
  ELSE IF o.kind = "throw" /\ r.kind \in {"patch", "del"}
          /\ o.value = <<"Item not found">> THEN 404
  ELSE IF o.kind = "throw" /\ r.kind = "ext"
          /\ o.value = <<"No valid items to add">> THEN 400
  ELSE 500

\* ------------------------------------------------------------ environment

\* a millisecond passes; every step may take any time
Tick ==
  /\ now < MaxTime
  /\ now' = now + 1
  /\ UNCHANGED <<lock, marker, dataFile, pc, req, tok, lockId, startTime,
                 attempt, wakeAt, list, outcome, hist, lastReleased, initialFile, emitted>>

Next ==
  \/ \E p \in Procs : Start(p)
  \/ \E p \in Procs : AcqCreate(p)
  \/ \E p \in Procs : AcqReturn(p)
  \/ \E p \in Procs : AcqStat(p)
  \/ \E p \in Procs : AcqBreak(p)
  \/ \E p \in Procs : AcqWake(p)
  \/ \E p \in Procs : CbLoad(p)
  \/ \E p \in Procs : CbWriteOpen(p)
  \/ \E p \in Procs : CbWrite(p)
  \/ \E p \in Procs : CbEmit(p)
  \/ \E p \in Procs : RelRead(p)
  \/ \E p \in Procs : RelUnlink(p)
  \/ Tick

Spec == Init /\ [][Next]_vars

\* ------------------------------------------------------------ timed runs
\* In the timed specifications the file system calls of acquire take no time
\* and a timer fires when it is due, so that elapsed time is the time slept.

Urgent(p) ==
  \/ pc[p] \in {"acq_create", "acq_return", "acq_stat", "acq_break"}
  \/ pc[p] = "acq_sleep" /\ now >= wakeAt[p]

\* an acquire started now ends its last sleep within the horizon h
InTime(h) == now + (lock.maxRetries - 1) * lock.retryDelay <= h

TickTimed ==
  /\ \A p \in Procs : ~Urgent(p)
  /\ Tick

StartTimed(p) == InTime(MaxTime) /\ Start(p)

StartDefaults(p) == InTime(DefaultsHorizon) /\ Start(p)

\* the marker of a holder that died is on disk; the lock is either the small
\* one or one whose marker never gets stale
InitTimed ==
  /\ lock \in {FileLock(SmallOptions), FileLock(HeldOptions)}
  /\ InitCommon
  /\ marker = LeftoverMarker
  /\ dataFile \in {AbsentFile, OneItemFile}

Step(p) ==
  \/ AcqCreate(p) \/ AcqReturn(p) \/ AcqStat(p) \/ AcqBreak(p) \/ AcqWake(p)
  \/ CbLoad(p) \/ CbWriteOpen(p) \/ CbWrite(p) \/ CbEmit(p)
  \/ RelRead(p) \/ RelUnlink(p)

NextTimed ==
  \/ \E p \in Procs : StartTimed(p)
  \/ \E p \in Procs : AcqCreate(p)
  \/ \E p \in Procs : AcqReturn(p)
  \/ \E p \in Procs : AcqStat(p)
  \/ \E p \in Procs : AcqBreak(p)
  \/ \E p \in Procs : AcqWake(p)
  \/ \E p \in Procs : CbLoad(p)
  \/ \E p \in Procs : CbWriteOpen(p)
  \/ \E p \in Procs : CbWrite(p)
  \/ \E p \in Procs : CbEmit(p)
  \/ \E p \in Procs : RelRead(p)
  \/ \E p \in Procs : RelUnlink(p)
  \/ TickTimed

\* the event loop runs every continuation that is ready and time goes on
SpecTimed ==
  /\ InitTimed /\ [][NextTimed]_vars
  /\ WF_vars(TickTimed)
  /\ \A p \in Procs : WF_vars(Step(p))

\* the server's own lock, new FileLock(LOCK_FILE), and one contender
InitDefaults ==
  /\ lock = FileLock(NoOptions)
  /\ InitCommon
  /\ marker = LeftoverMarker
  /\ dataFile \in {AbsentFile, OneItemFile}

\* time is followed until the contender's call is over; its callback and its
\* release take no time either; time passes in steps of TickMs, cut short at
\* the instant the contender's timer is due
TickDefaults ==
  /\ pc[1] \in {"idle", "acq_sleep"}
  /\ ~Urgent(1)
  /\ now + TickMs <= DefaultsHorizon
  /\ now' = IF pc[1] = "acq_sleep" /\ wakeAt[1] < now + TickMs
            THEN wakeAt[1]
            ELSE now + TickMs
  /\ UNCHANGED <<lock, marker, dataFile, pc, req, tok, lockId, startTime,
                 attempt, wakeAt, list, outcome, hist, lastReleased, initialFile, emitted>>

NextDefaults ==
  \/ StartDefaults(1)
  \/ AcqCreate(1)
  \/ AcqReturn(1)
  \/ AcqStat(1)
  \/ AcqBreak(1)
  \/ AcqWake(1)
  \/ CbLoad(1)
  \/ CbWriteOpen(1)
  \/ CbWrite(1)
  \/ CbEmit(1)
  \/ RelRead(1)
  \/ RelUnlink(1)
  \/ TickDefaults

SpecDefaults == InitDefaults /\ [][NextDefaults]_vars

\* the server finds a DATA_FILE whose content does not parse
InitMalformed ==
  /\ lock = FileLock(SmallOptions)
  /\ InitCommon
  /\ dataFile = MalformedFile

SpecMalformed == InitMalformed /\ [][Next]_vars

\* every mutating route, on a list with an unchecked and a checked item
InitRoutes ==
  /\ lock = FileLock(SmallOptions)
  /\ InitCommon
  /\ marker = NoMarker
  /\ dataFile = RoutesFile

NextRoutes ==
  \/ \E p \in Procs : StartRoutes(p)
  \/ \E p \in Procs : AcqCreate(p)
  \/ \E p \in Procs : AcqReturn(p)
  \/ \E p \in Procs : AcqStat(p)
  \/ \E p \in Procs : AcqBreak(p)
  \/ \E p \in Procs : AcqWake(p)
  \/ \E p \in Procs : CbLoad(p)
  \/ \E p \in Procs : CbWriteOpen(p)
  \/ \E p \in Procs : CbWrite(p)
  \/ \E p \in Procs : CbEmit(p)
  \/ \E p \in Procs : RelRead(p)
  \/ \E p \in Procs : RelUnlink(p)
  \/ Tick

SpecRoutes == InitRoutes /\ [][NextRoutes]_vars

\* mutations whose callback throws, on a list with one item and no marker
InitFailing ==
  /\ lock = FileLock(SmallOptions)
  /\ InitCommon
  /\ marker = NoMarker
  /\ dataFile = OneItemFile

NextFailing ==
  \/ \E p \in Procs : StartFailing(p)
  \/ \E p \in Procs : AcqCreate(p)
  \/ \E p \in Procs : AcqReturn(p)
  \/ \E p \in Procs : AcqStat(p)
  \/ \E p \in Procs : AcqBreak(p)
  \/ \E p \in Procs : AcqWake(p)
  \/ \E p \in Procs : CbLoad(p)
  \/ \E p \in Procs : CbWriteOpen(p)
  \/ \E p \in Procs : CbWrite(p)
  \/ \E p \in Procs : CbEmit(p)
  \/ \E p \in Procs : RelRead(p)
  \/ \E p \in Procs : RelUnlink(p)
  \/ Tick

SpecFailing == InitFailing /\ [][NextFailing]_vars

\* updates of the two items of the list
NextPatch ==
  \/ \E p \in Procs : StartPatch(p)
  \/ \E p \in Procs : AcqCreate(p)
  \/ \E p \in Procs : AcqReturn(p)
  \/ \E p \in Procs : AcqStat(p)
  \/ \E p \in Procs : AcqBreak(p)
  \/ \E p \in Procs : AcqWake(p)
  \/ \E p \in Procs : CbLoad(p)
  \/ \E p \in Procs : CbWriteOpen(p)
  \/ \E p \in Procs : CbWrite(p)
  \/ \E p \in Procs : CbEmit(p)
  \/ \E p \in Procs : RelRead(p)
  \/ \E p \in Procs : RelUnlink(p)
  \/ Tick

SpecPatch == InitRoutes /\ [][NextPatch]_vars

\* the external add and its alias
NextAlias ==
  \/ \E p \in Procs : StartAlias(p)
  \/ \E p \in Procs : AliasForward(p)
  \/ \E p \in Procs : AcqCreate(p)
  \/ \E p \in Procs : AcqReturn(p)
  \/ \E p \in Procs : AcqStat(p)
  \/ \E p \in Procs : AcqBreak(p)
  \/ \E p \in Procs : AcqWake(p)
  \/ \E p \in Procs : CbLoad(p)
  \/ \E p \in Procs : CbWriteOpen(p)
  \/ \E p \in Procs : CbWrite(p)
  \/ \E p \in Procs : CbEmit(p)
  \/ \E p \in Procs : RelRead(p)
  \/ \E p \in Procs : RelUnlink(p)
  \/ Tick

SpecAlias == InitRoutes /\ [][NextAlias]_vars

\* the file system may refuse the creation of the marker
NextFaults ==
  \/ Next
  \/ \E p \in Procs : AcqCreateError(p)

SpecFaults == InitFailing /\ [][NextFaults]_vars

\* mutations and pure reads side by side
NextReads ==
  \/ \E p \in Procs : StartReads(p)
  \/ \E p \in Procs : GetLoad(p)
  \/ \E p \in Procs : AcqCreate(p)
  \/ \E p \in Procs : AcqReturn(p)
  \/ \E p \in Procs : AcqStat(p)
  \/ \E p \in Procs : AcqBreak(p)
  \/ \E p \in Procs : AcqWake(p)
  \/ \E p \in Procs : CbLoad(p)
  \/ \E p \in Procs : CbWriteOpen(p)
  \/ \E p \in Procs : CbWrite(p)
  \/ \E p \in Procs : CbEmit(p)
  \/ \E p \in Procs : RelRead(p)
  \/ \E p \in Procs : RelUnlink(p)
  \/ Tick

SpecReads == Init /\ [][NextReads]_vars

\* ------------------------------------------------------------ properties

\* p is between the return of acquire and the end of its release
Holding(p) ==
  pc[p] \in {"cb_load", "cb_write_open", "cb_write", "cb_emit", "rel_read", "rel_unlink"}

\* p acquired the lock at some point
Acquired(p) == lockId[p] # NoToken

\* p held (or has held so far) the lock for no longer than the staleness threshold
WithinLease(p) ==
  IF pc[p] = "done"
  THEN hist[p].releasedAt - hist[p].acquiredAt <= lock.lockTimeout
  ELSE Holding(p) => now - hist[p].acquiredAt <= lock.lockTimeout

Adders == {p \in Procs : pc[p] = "done" /\ outcome[p].kind = "return"
                          /\ req[p].kind \in {"add", "ext"}}

Deleters == {p \in Procs : pc[p] = "done" /\ outcome[p].kind = "return"
                            /\ req[p].kind = "del"}

CountNamed(items, n) == Cardinality({i \in 1..Len(items) : items[i].name = n})

\* C1: once all concurrent scoped mutations have completed successfully, the
\* document holds the initial items plus every appended item exactly once
\* (checked for mutations that each finished within the staleness threshold)
C1_NoLostUpdate ==
  ( /\ \A p \in Procs : pc[p] = "done" /\ outcome[p].kind = "return"
    /\ \A p \in Procs : WithinLease(p) )
  => /\ Len(dataFile.items)
          = Len(initialFile.items) + Cardinality(Adders) - Cardinality(Deleters)
     /\ \A p \in Adders : CountNamed(dataFile.items, p) = 1

\* C2: at most one caller is between the return of its acquire and the end
\* of its release (checked for callers that have held the lock for no longer
\* than the staleness threshold)
C2_MutualExclusion ==
  (\A p \in Procs : WithinLease(p))
  => Cardinality({p \in Procs : Holding(p)}) <= 1

\* C3 as stated: a release never deletes a marker holding another caller's
\* token, however its steps interleave with a stale-break and a new acquire
C3_ReleaseNeverDeletesForeign ==
  \A p \in Procs : ~hist[p].deletedForeign

\* C3 as amended: a release that reads the marker after the caller's own
\* marker was removed by someone else deletes nothing
C3_LateReleaseKeepsMarker ==
  \A p \in Procs : hist[p].lateRelease => ~hist[p].deletedForeign

\* A's marker was broken as stale by B, B acquired, A released late and B's
\* marker is still there
C3_Witness ==
  \E a \in Procs : \E b \in Procs \ {a} :
     /\ pc[a] = "done" /\ hist[a].lateRelease
     /\ hist[b].breaks > 0 /\ Holding(b)
     /\ marker.exists /\ marker.content = lockId[b]

\* C4: once a withLock call that acquired the lock has returned or thrown,
\* the marker is absent or carries the token of a different, later acquirer
C4_ReleaseCorrect ==
  \A p \in Procs :
     (pc[p] = "done" /\ Acquired(p))
     => \/ ~marker.exists
        \/ /\ marker.content # lockId[p]
           /\ marker.content[1] \in Procs
           /\ marker.mtime >= hist[p].acquiredAt

\* a call whose callback threw is over and a later acquirer holds the marker
C4_Witness ==
  \E p \in Procs : \E q \in Procs \ {p} :
     /\ pc[p] = "done" /\ Acquired(p) /\ outcome[p].kind = "throw"
     /\ marker.exists /\ marker.content = lockId[q]

\* what the callback of p returned or threw, recomputed from the request and
\* from the file content the callback loaded
CallbackResult(p) ==
  Mutate(req[p], LoadShoppingList(hist[p].basis, list[p].lastModified), p,
         list[p].lastModified).result

\* C5: withLock returns what the callback returned and throws what it threw,
\* only once release has run, whatever release found
C5_OutcomePropagated ==
  \A p \in Procs :
     /\ (pc[p] = "done" /\ Acquired(p))
        => outcome[p] = CallbackResult(p) /\ hist[p].releases = 1
     /\ pc[p] # "done" => outcome[p] = NoOutcome

\* a callback error got through a release that found another caller's marker
C5_Witness ==
  \E p \in Procs : \E q \in Procs \ {p} :
     /\ pc[p] = "done" /\ outcome[p].kind = "throw" /\ hist[p].lateRelease
     /\ marker.exists /\ marker.content = lockId[q]

\* C6: the callback runs once when acquire succeeded and never when it timed
\* out; a timed-out call throws the timeout, releases nothing, writes nothing
C6_CallbackOnce ==
  \A p \in Procs :
     /\ hist[p].cbRuns <= 1
     /\ pc[p] = "done" =>
          IF Acquired(p)
          THEN hist[p].cbRuns = 1 /\ hist[p].releases = 1
          ELSE /\ outcome[p].kind = "timeout"
               /\ hist[p].cbRuns = 0 /\ hist[p].releases = 0
               /\ ~hist[p].wrote

\* one call timed out while the other ran its callback and wrote
C6_Witness ==
  \E p \in Procs : \E q \in Procs \ {p} :
     /\ pc[p] = "done" /\ outcome[p].kind = "timeout"
     /\ pc[q] = "done" /\ Acquired(q) /\ hist[q].wrote

\* C10: a mutation about to save computed its document from the file content
\* left by the last released mutation (checked for callers within the
\* staleness threshold)
C10_ReadAfterWrite ==
  (\A p \in Procs : WithinLease(p))
  => \A p \in Procs :
        pc[p] \in {"cb_write_open", "cb_write"} => hist[p].basis = lastReleased

\* p is the only request so far
Lone(p) == \A q \in Procs \ {p} : pc[q] = "idle"

Max(a, b) == IF a >= b THEN a ELSE b

\* the instant at which p's acquire gave up
FailedAt(p) == startTime[p] + outcome[p].value

\* C7: the marker of a holder that never releases is not removed and nobody
\* acquires before its age exceeds the staleness threshold; a single contender
\* that is still attempting once the age has exceeded the threshold acquires,
\* at the latest one backoff delay after the threshold was reached
C7_StaleRecovery ==
  \A p \in Procs :
     Lone(p) =>
       /\ now <= lock.lockTimeout => marker = LeftoverMarker /\ ~Acquired(p)
       /\ (pc[p] \notin {"idle", "done"} /\ ~Acquired(p))
             => now <= Max(lock.lockTimeout + lock.retryDelay, startTime[p])
       /\ (pc[p] = "done" /\ outcome[p].kind = "timeout")
             => FailedAt(p) <= lock.lockTimeout

\* C8 as stated: with the default parameters the contender that finds a dead
\* holder's marker never fails with the acquisition timeout, whenever it started
C8_AlwaysRecovers ==
  pc[1] = "done" => Acquired(1) /\ outcome[1].kind # "timeout"

\* C8 as amended: with the default parameters (50, 50 ms, 5000 ms) the marker
\* of a dead holder is recovered only once it is more than 5000 ms old: nobody
\* acquires before; a contender that starts after that acquires on its second
\* create attempt without sleeping; a contender that times out has made 50
\* attempts and slept 49 times (2450 ms), and one whose 49 sleeps end while the
\* marker is at most 5000 ms old does time out
C8_DefaultsRecovery ==
  /\ lock = [maxRetries |-> 50, retryDelay |-> 50, lockTimeout |-> 5000]
  /\ Acquired(1) => hist[1].acquiredAt > lock.lockTimeout
  /\ (pc[1] = "done" /\ startTime[1] > lock.lockTimeout)
        => Acquired(1) /\ hist[1].creates = 2 /\ hist[1].sleeps = 0
  /\ (pc[1] = "done" /\ outcome[1].kind = "timeout")
        => /\ hist[1].creates = lock.maxRetries
           /\ hist[1].sleeps = lock.maxRetries - 1
           /\ outcome[1].value >= (lock.maxRetries - 1) * lock.retryDelay
  /\ (pc[1] = "done"
        /\ startTime[1] + (lock.maxRetries - 1) * lock.retryDelay <= lock.lockTimeout)
        => outcome[1].kind = "timeout"

\* a contender that started while the marker was fresh slept until it was
\* stale and then acquired
C8_Witness ==
  /\ pc[1] = "done" /\ Acquired(1)
  /\ startTime[1] <= lock.lockTimeout /\ hist[1].sleeps > 0 /\ hist[1].breaks = 1

\* the marker on disk is never stale in this run
NeverStale == lock.lockTimeout > MaxTime

C9_Counts ==
  \A p \in Procs :
     NeverStale =>
       /\ hist[p].creates <= lock.maxRetries
       /\ hist[p].sleeps <= lock.maxRetries - 1
       /\ pc[p] = "done" =>
            /\ outcome[p].kind = "timeout"
            /\ hist[p].creates = lock.maxRetries
            /\ hist[p].sleeps = lock.maxRetries - 1
            /\ outcome[p].value >= (lock.maxRetries - 1) * lock.retryDelay

\* C9: against a marker that is held for good and never stale, acquire with
\* maxRetries = n fails with the timeout after exactly n create attempts and
\* n - 1 sleeps, hence after at least (n - 1) * retryDelay, and it does end
C9_TimeoutBound ==
  /\ []C9_Counts
  /\ \A p \in Procs : (NeverStale /\ pc[p] = "acq_create") ~> (pc[p] = "done")

\* an acquire with three attempts has timed out after two sleeps
C9_Witness ==
  \E p \in Procs :
     /\ NeverStale /\ lock.maxRetries = HeldMaxRetries
     /\ pc[p] = "done" /\ outcome[p].kind = "timeout"
     /\ hist[p].sleeps = lock.maxRetries - 1
     /\ outcome[p].value = (lock.maxRetries - 1) * lock.retryDelay

\* C11: a mutation whose load found a document that does not parse is
\* aborted with an error: it saves nothing, the error reaches the caller and
\* the lock is released
C11_MalformedAborts ==
  \A p \in Procs :
     (hist[p].cbRuns = 1 /\ hist[p].basis = MalformedFile)
     => /\ hist[p].cbResult.kind = "throw"
        /\ pc[p] \notin {"cb_write_open", "cb_write"}
        /\ ~hist[p].wrote
        /\ pc[p] = "done" => outcome[p].kind = "throw" /\ hist[p].releases = 1

\* nobody but p has written or is writing DATA_FILE
OnlyWriter(p) ==
  \A q \in Procs \ {p} : ~hist[q].wrote /\ pc[q] # "cb_write"

\* C12: a load that finds no DATA_FILE gives the empty list without an error
\* and does not create the file; an add applied to it saves a document that
\* holds exactly the added item (a delete finds nothing to delete)
C12_EmptyLoad ==
  \A p \in Procs :
     (hist[p].cbRuns = 1 /\ hist[p].basis = AbsentFile)
     => /\ req[p].kind \in {"add", "ext"}
            => /\ hist[p].cbResult.kind = "return"
               /\ Len(list[p].items) = 1
               /\ list[p].items[1].name = req[p].name
               /\ hist[p].wrote
                    => hist[p].saved = [state |-> "ok", items |-> list[p].items,
                                        lastModified |-> list[p].lastModified]
        /\ req[p].kind = "del"
            => /\ hist[p].cbResult = [kind |-> "throw", value |-> <<"Item not found">>]
               /\ list[p].items = <<>>
               /\ ~hist[p].wrote
        /\ (OnlyWriter(p) /\ ~hist[p].wrote /\ pc[p] # "cb_write")
            => dataFile = AbsentFile

\* an add that found no DATA_FILE has created it with its one item
C12_Witness ==
  \E p \in Procs :
     /\ pc[p] = "done" /\ hist[p].basis = AbsentFile /\ hist[p].wrote
     /\ dataFile = hist[p].saved /\ Len(dataFile.items) = 1
     /\ dataFile.items[1].name = p

\* C13: a release that finds the marker absent, or finds in it a token other
\* than the caller's, ends at once, leaves the marker as it is and throws
\* nothing: the caller gets its callback's value or error; the unlink of a
\* release that read its own token ends the release quietly as well
C13_ReleaseQuiet ==
  [][\A p \in Procs :
        /\ (pc[p] = "rel_read" /\ pc'[p] # "rel_read"
               /\ ~(marker.exists /\ marker.content = lockId[p]))
           => /\ marker' = marker
              /\ pc'[p] = "done"
              /\ outcome'[p] = hist[p].cbResult
        /\ (pc[p] = "rel_unlink" /\ pc'[p] # "rel_unlink")
           => /\ pc'[p] = "done"
              /\ outcome'[p] = hist[p].cbResult]_vars

\* a release found the token of the caller that had broken its marker, left
\* that marker in place and returned the callback's value
C13_Witness ==
  \E p \in Procs : \E q \in Procs \ {p} :
     /\ pc[p] = "done" /\ hist[p].lateRelease /\ outcome[p].kind = "return"
     /\ ~hist[p].deletedForeign
     /\ marker.exists /\ marker.content = lockId[q]
     /\ hist[p].releasedAt >= marker.mtime

\* the 'list-updated' events request p has emitted
EmittedBy(p) == SelectSeq(emitted, LAMBDA e : e.by = p)

\* the document a file content stands for
DocOf(f) == [items |-> f.items, lastModified |-> f.lastModified]

\* C14: a mutation request (add, batch add, update, delete, clear-checked)
\* that succeeded has emitted exactly one 'list-updated' event, whose payload
\* is the document its save wrote and returned, stamp included; no request
\* emits more than one
C14_OneBroadcast ==
  \A p \in Procs :
     /\ Len(EmittedBy(p)) <= 1
     /\ (pc[p] = "done" /\ outcome[p].kind = "return")
        => /\ Len(EmittedBy(p)) = 1
           /\ hist[p].wrote /\ hist[p].saved.state = "ok"
           /\ EmittedBy(p)[1].payload = DocOf(hist[p].saved)
           /\ req[p].kind = "clear"
                => outcome[p].value = <<EmittedBy(p)[1].payload>>

\* a clear-checked and a batch add have both succeeded: two events, the last
\* one carries what is on disk
C14_Witness ==
  \E p \in Procs : \E q \in Procs \ {p} :
     /\ pc[p] = "done" /\ outcome[p].kind = "return" /\ req[p].kind = "clear"
     /\ pc[q] = "done" /\ outcome[q].kind = "return" /\ req[q].hasItems
     /\ Len(emitted) = 2
     /\ emitted[2].payload = DocOf(dataFile)

\* the requests the routes turn down before withLock: an external request
\* whose x-api-key is missing or wrong, an external request with neither name
\* nor items, an add without name or categoryId
TurnedDown(r) ==
  \/ r.kind = "ext" /\ r.apiKey # API_KEY
  \/ r.kind = "ext" /\ r.name = 0 /\ ~r.hasItems
  \/ r.kind = "add" /\ (r.name = 0 \/ r.categoryId = 0)

C15_NoTrace ==
  \A p \in Procs :
     (pc[p] # "idle" /\ TurnedDown(req[p]))
     => /\ pc[p] = "done"
        /\ outcome[p].kind = "rejected"
        /\ outcome[p].value = IF req[p].kind = "ext" /\ req[p].apiKey # API_KEY
                              THEN 401 ELSE 400
        /\ hist[p] = NoHist
        /\ lockId[p] = NoToken /\ tok[p] = NoToken
        /\ EmittedBy(p) = <<>>

RECURSIVE UncheckedFrom(_, _)
UncheckedFrom(items, i) ==
  IF i > Len(items) THEN <<>>
  ELSE (IF items[i].checked THEN <<>> ELSE <<i>>) \o UncheckedFrom(items, i + 1)

\* the document request p's callback loaded
Loaded(p) == LoadShoppingList(hist[p].basis, list[p].lastModified)

\* C16: clear-checked keeps exactly the unchecked items of the list it loaded,
\* unmodified and in their order, and removes every checked one; clearing the
\* result again changes nothing, and so does a second clear-checked request
\* that loads what the first one saved
C16_ClearChecked ==
  \A p \in Procs :
     (req[p].kind = "clear" /\ hist[p].cbRuns = 1)
     => LET before == Loaded(p).items
            after == list[p].items
            kept == UncheckedFrom(before, 1)
        IN /\ Len(after) = Len(kept)
           /\ \A k \in 1..Len(after) : after[k] = before[kept[k]]
           /\ \A k \in 1..Len(after) : ~after[k].checked
           /\ ClearChecked(after) = after
           /\ \A q \in Procs \ {p} :
                (req[q].kind = "clear" /\ hist[q].wrote
                   /\ hist[p].basis = hist[q].saved)
                => after = hist[q].saved.items

\* a clear-checked loaded a list with a checked item between two unchecked
\* ones and kept the two, in order
C16_Witness ==
  \E p \in Procs :
     /\ req[p].kind = "clear" /\ pc[p] = "done" /\ outcome[p].kind = "return"
     /\ Len(Loaded(p).items) = 3
     /\ ~Loaded(p).items[1].checked
     /\ Loaded(p).items[2].checked
     /\ ~Loaded(p).items[3].checked
     /\ list[p].items = <<Loaded(p).items[1], Loaded(p).items[3]>>

\* C17: whenever the stale-break unlink of acquire removes a marker, the
\* marker it removes is older than the staleness threshold at that instant
C17_BreakOnlyStale ==
  \A p \in Procs :
     hist[p].brokenAge # NoTime => hist[p].brokenAge > lock.lockTimeout

\* C18: the step that follows an acquirer's stale break is its next exclusive
\* create, without a sleep and without the timeout, also when the break
\* happened on the last of the maxRetries attempts
C18_BreakThenCreate ==
  [][\A p \in Procs :
        (pc[p] = "acq_break" /\ pc'[p] # "acq_break")
        => /\ pc'[p] = "acq_create"
           /\ outcome'[p] = NoOutcome
           /\ hist'[p].sleeps = hist[p].sleeps]_vars

\* C19: at the instant acquire returns its token the marker exists and holds
\* exactly that token, the one acquire's own exclusive create wrote; and a
\* marker that exists keeps its content and its age until it is deleted
\* (checked for returns that follow the create within the staleness threshold)
C19_TokenFromCreate ==
  [][/\ \A p \in Procs :
          (pc[p] = "acq_return" /\ pc'[p] # "acq_return"
             /\ now - hist[p].acquiredAt <= lock.lockTimeout)
          => /\ lockId'[p] = tok[p] /\ lockId'[p] # NoToken
             /\ marker'.exists /\ marker'.content = lockId'[p]
     /\ (marker.exists /\ marker'.exists) => marker' = marker]_vars

\* acquire is over for p: it returned a token or threw
AcquireOver(p) == pc[p] \in {"cb_load", "cb_write_open", "cb_write", "cb_emit",
                             "rel_read", "rel_unlink", "done"}

C20_Counts ==
  \A p \in Procs :
     /\ hist[p].creates <= lock.maxRetries
     /\ hist[p].sleeps <= lock.maxRetries - 1
     /\ hist[p].sleeps + hist[p].breaks <= lock.maxRetries
     /\ (pc[p] = "done" /\ ~Acquired(p) /\ hist[p].creates > 0)
        => outcome[p].kind = "timeout"

\* C20: whatever the other requests do to the marker, an acquire makes at
\* most maxRetries exclusive creates and at most maxRetries - 1 sleeps and
\* then is over, with a token or with the timeout; and a withLock call whose
\* callback ends is over as well
C20_BoundedAcquire ==
  /\ []C20_Counts
  /\ \A p \in Procs : (pc[p] = "acq_create") ~> AcquireOver(p)
  /\ \A p \in Procs : (pc[p] = "acq_create") ~> (pc[p] = "done")

\* a request got the lock on its last attempt, after maxRetries - 1 sleeps,
\* from a request that had broken the stale marker and has released since
C20_Witness ==
  \E p \in Procs : \E q \in Procs \ {p} :
     /\ pc[p] = "done" /\ Acquired(p)
     /\ hist[p].creates = lock.maxRetries
     /\ hist[p].sleeps = lock.maxRetries - 1
     /\ hist[q].breaks > 0 /\ pc[q] = "done" /\ Acquired(q)

\* C21: DATA_FILE changes only in the write steps of a withLock callback
\* that has acquired the lock and loaded the list, and at each of these steps
\* the marker holds the writer's own token (checked for writers that have
\* held the lock for no longer than the staleness threshold)
C21_LockDiscipline ==
  [][/\ dataFile' # dataFile
        => \E p \in Procs :
              /\ pc[p] \in {"cb_write_open", "cb_write"} /\ pc'[p] # pc[p]
              /\ Acquired(p) /\ hist[p].cbRuns = 1
     /\ \A p \in Procs :
          (pc[p] \in {"cb_write_open", "cb_write"} /\ pc'[p] # pc[p]
             /\ now - hist[p].acquiredAt <= lock.lockTimeout)
          => marker.exists /\ marker.content = lockId[p]]_vars

\* p is a pure read
Reader(p) == req[p].kind \in {"get", "sync"}

\* C22: what a pure read returns is the document the server found or one
\* that a save has written, or the empty list when the server found no file
C22_ReadsComplete ==
  \A p \in Procs :
     (Reader(p) /\ pc[p] = "done")
     => \/ initialFile.state = "ok" /\ list[p] = DocOf(initialFile)
        \/ \E q \in Procs : hist[q].wrote /\ list[p] = DocOf(hist[q].saved)
        \/ initialFile = AbsentFile /\ list[p].items = <<>>

\* a pure read has left no trace on the lock or on DATA_FILE, and its load
\* is not waiting for anything
C23_NoLockUse ==
  \A p \in Procs :
     (Reader(p) /\ pc[p] # "idle")
     => /\ pc[p] \in {"get_load", "done"}
        /\ pc[p] = "get_load" => ENABLED GetLoad(p)
        /\ hist[p].creates = 0 /\ hist[p].breaks = 0 /\ hist[p].releases = 0
        /\ hist[p].sleeps = 0 /\ ~hist[p].wrote
        /\ lockId[p] = NoToken /\ tok[p] = NoToken
        /\ EmittedBy(p) = <<>>
        /\ pc[p] = "done" => outcome[p] = [kind |-> "return", value |-> <<list[p]>>]

\* C23: GET /api/shopping/list and request-sync never create, read or delete
\* the marker and never write DATA_FILE, also when it is absent; their load
\* can run whatever the state of the lock, and what they return is what the
\* load gave
C23_ReadsLockFree ==
  /\ []C23_NoLockUse
  /\ [][\A p \in Procs :
          (Reader(p) /\ pc'[p] # pc[p]) \/ (pc[p] = "idle" /\ pc'[p] = "get_load")
          => /\ marker' = marker
             /\ dataFile' = dataFile
             /\ emitted' = emitted]_vars

\* a pure read is over while the marker of a holder that never releases is on
\* disk; there was no DATA_FILE and there is none
C23_Witness ==
  \E p \in Procs :
     /\ Reader(p) /\ pc[p] = "done"
     /\ marker = LeftoverMarker
     /\ hist[p].basis = AbsentFile /\ dataFile = AbsentFile
     /\ list[p].items = <<>>

\* p's callback threw and p's withLock call is over
CallbackFailed(p) ==
  pc[p] = "done" /\ Acquired(p) /\ outcome[p].kind = "throw"

\* q started once every other request had acquired, released and ended
Uncontended(q) ==
  \A r \in Procs \ {q} :
     pc[r] = "done" /\ Acquired(r) /\ hist[r].releasedAt < startTime[q]

\* C24: a mutation whose callback throws before its save ('Item not found',
\* answered 404, on an update or delete of an unknown id; 'No valid items to
\* add', answered 400, on an external add without a named item) has written
\* nothing and emitted nothing and has run release; DATA_FILE is as it was
\* while nobody else has written; and a request that starts afterwards, with
\* no other request around, acquires on its first create
C24_FailedMutation ==
  /\ \A p \in Procs :
        CallbackFailed(p)
        => /\ req[p].kind \in {"patch", "del"}
                => /\ outcome[p].value = <<"Item not found">>
                   /\ Status(req[p], outcome[p]) = 404
           /\ req[p].kind = "ext"
                => /\ outcome[p].value = <<"No valid items to add">>
                   /\ Status(req[p], outcome[p]) = 400
           /\ ~hist[p].wrote /\ EmittedBy(p) = <<>>
           /\ hist[p].releases = 1
  /\ (\A q \in Procs : ~hist[q].wrote /\ pc[q] # "cb_write")
        => dataFile = initialFile
  /\ \A q \in Procs :
        (Uncontended(q) /\ (\E p \in Procs \ {q} : CallbackFailed(p))
           /\ hist[q].creates > 0)
        => /\ hist[q].creates = 1
           /\ pc[q] \notin {"acq_stat", "acq_break", "acq_sleep", "acq_create"}
           /\ pc[q] = "done" => Acquired(q)

\* an update of an unknown id was answered 404; the add that started after
\* it got the lock on its first create and has saved its item
C24_Witness ==
  \E p \in Procs : \E q \in Procs \ {p} :
     /\ CallbackFailed(p) /\ req[p].kind = "patch"
     /\ Status(req[p], outcome[p]) = 404
     /\ Uncontended(q) /\ pc[q] = "done" /\ outcome[q].kind = "return"
     /\ hist[q].creates = 1
     /\ Len(dataFile.items) = Len(initialFile.items) + 1

\* C25: whenever no request is in progress the document broadcast last is
\* the one DATA_FILE holds (checked for mutations that each held the lock for
\* no longer than the staleness threshold)
C25_BroadcastOrder ==
  ( /\ \A p \in Procs : pc[p] \in {"idle", "done"}
    /\ \A p \in Procs : WithinLease(p)
    /\ emitted # <<>> )
  => emitted[Len(emitted)].payload = DocOf(dataFile)

\* C26: an update of item :id leaves the number and the order of the items
\* and every other item as they were; the updated item keeps its id and the
\* fields the body does not name, and its checkedAt is set when the body sets
\* checked to true and cleared when it sets it to false
C26_PartialUpdate ==
  \A p \in Procs :
     (req[p].kind = "patch" /\ hist[p].cbRuns = 1 /\ hist[p].cbResult.kind = "return")
     => LET before == Loaded(p).items
            after == list[p].items
            u == req[p].updates
            i == CHOOSE k \in 1..Len(before) : before[k].id = req[p].id
        IN /\ Len(after) = Len(before)
           /\ \A k \in 1..Len(before) : k # i => after[k] = before[k]
           /\ after[i].id = before[i].id
           /\ "name" \notin u.has => after[i].name = before[i].name
           /\ "checked" \notin u.has
                => /\ after[i].checked = before[i].checked
                   /\ after[i].checkedAt = before[i].checkedAt
           /\ "details" \notin u.has => after[i].details = before[i].details
           /\ ("checked" \in u.has /\ u.checked)
                => after[i].checked /\ after[i].checkedAt = list[p].lastModified
           /\ ("checked" \in u.has /\ ~u.checked)
                => ~after[i].checked /\ after[i].checkedAt = NoTime

\* C27: no two items of the stored document have the same id
C27_UniqueIds ==
  dataFile.state = "ok"
  => \A i \in 1..Len(dataFile.items) : \A j \in 1..Len(dataFile.items) :
        i # j => dataFile.items[i].id # dataFile.items[j].id

\* C28: a POST /api/external/add-items with a valid key and a list of named
\* items is forwarded once to the add-item handler and ends with a success
\* response, its items appended to the document under the lock as add-item
\* would have appended them
C28_AliasForwards ==
  \A p \in Procs :
     req[p].kind = "alias"
     => /\ hist[p].forwards <= 1
        /\ pc[p] = "done"
             => /\ outcome[p].kind = "return"
                /\ Status(req[p], outcome[p]) = 200
                /\ Acquired(p) /\ hist[p].wrote
                /\ Len(list[p].items) = Len(Loaded(p).items) + Len(req[p].items)

\* a request whose create failed with another error than EEXIST is over with
\* that error, answered 500, and has neither run its callback nor released,
\* slept or created anything after the failure
C29_NoTrace ==
  \A p \in Procs :
     hist[p].createError # ""
     => /\ pc[p] = "done"
        /\ outcome[p] = [kind |-> "throw", value |-> <<hist[p].createError>>]
        /\ Status(req[p], outcome[p]) = 500
        /\ ~Acquired(p)
        /\ hist[p].cbRuns = 0 /\ hist[p].releases = 0 /\ ~hist[p].wrote
        /\ hist[p].creates = attempt[p] + 1
        /\ EmittedBy(p) = <<>>

\* C29: when the creation of the marker fails for another reason than
\* 'already exists', acquire rethrows the error at once, without another
\* attempt, a sleep or a change of the marker, and withLock passes it on
\* without calling the callback or release
C29_CreateErrorRethrown ==
  /\ []C29_NoTrace
  /\ [][\A p \in Procs :
          hist'[p].createError # hist[p].createError
          => /\ pc'[p] = "done"
             /\ marker' = marker
             /\ dataFile' = dataFile
             /\ hist'[p].sleeps = hist[p].sleeps
             /\ hist'[p].breaks = hist[p].breaks]_vars

\* a request's second create, after a sleep, failed with EACCES while the
\* other request holds the lock; the marker is still the holder's
C29_Witness ==
  \E p \in Procs : \E q \in Procs \ {p} :
     /\ hist[p].createError = "EACCES" /\ pc[p] = "done"
     /\ hist[p].creates = 2 /\ hist[p].sleeps = 1
     /\ Holding(q) /\ marker.exists /\ marker.content = lockId[q]

\* the stat of an acquirer finds no marker
StatMisses(p) == pc[p] = "acq_stat" /\ ~marker.exists /\ pc'[p] # pc[p]

\* C30: an acquirer whose stat finds the marker gone deletes nothing and gets
\* no error from it: with attempts left it sleeps and tries again, and a later
\* create of it that finds the marker still absent acquires the lock
C30_MissedStatRetries ==
  [][\A p \in Procs :
       /\ StatMisses(p)
          => /\ marker' = marker
             /\ hist'[p].breaks = hist[p].breaks
             /\ IF attempt[p] < lock.maxRetries - 1
                THEN /\ pc'[p] = "acq_sleep"
                     /\ wakeAt'[p] = now + lock.retryDelay
                     /\ attempt'[p] = attempt[p]
                     /\ outcome'[p] = NoOutcome
                ELSE /\ pc'[p] = "done"
                     /\ outcome'[p].kind = "timeout"
       /\ (hist[p].statMissed /\ pc[p] = "acq_sleep" /\ pc'[p] # pc[p])
          => /\ pc'[p] = "acq_create"
             /\ attempt'[p] = attempt[p] + 1
             /\ attempt'[p] < lock.maxRetries
       /\ (hist[p].statMissed /\ pc[p] = "acq_create" /\ ~marker.exists
             /\ pc'[p] # pc[p])
          => /\ pc'[p] = "acq_return"
             /\ marker' = [exists |-> TRUE, content |-> tok[p], mtime |-> now]]_vars

\* a request whose first create failed and whose stat found the marker
\* already released has slept once, created the marker on its second attempt
\* without breaking anything, and holds the lock
C30_Witness ==
  \E p \in Procs :
     /\ hist[p].statMissed /\ hist[p].breaks = 0
     /\ hist[p].creates = 2 /\ hist[p].sleeps = 1
     /\ Holding(p) /\ marker.exists /\ marker.content = lockId[p]

====
